---- MODULE Spec2Model ----
(***************************************************************************)
(* AsyncWorker (src/src/async-worker.js, first module: the weighted,       *)
(* multi-listener worker).  A tick (_worker) is modelled step by step: a   *)
(* step ends where the worker hands control to a job callable or to the    *)
(* listeners of a signal, and the next step starts where that callback     *)
(* returns.  While a callback runs it may call the public API.             *)
(*                                                                         *)
(* Weights are counted in quarters: weight 1 is Unit, 0.5 is 2, 0.25 is 1. *)
(* Array.prototype.sort is taken to be stable (ECMAScript 2019).           *)
(***************************************************************************)
EXTENDS Integers, Sequences, FiniteSets, TLC

\* ---------------------------------------------------------------- bounds
MaxJobs ==
    3

MaxWeightedJobs ==
    4

MaxPending ==
    2

MaxCalls ==
    1

\* registrations of callbacks at one time
MaxListeners ==
    3

\* jobs appended to the counted variant's worker
MaxCountedJobs ==
    51

\* jobs appended by a caller that passes every kind of argument
MaxArgumentJobs ==
    2

\* jobs appended to the single-handler variant's worker before a clear
MaxHandlerJobs ==
    3

\* ------------------------------------------------------------- constants
\* Weights are counted in quarters, so that 0.25 and 0.5 are integers: Unit is
\* the weight 1 that append gives a job (line 358).
Unit ==
    4

WeightMaxActive ==
    1 * Unit

WeightMaxInactive ==
    25 * Unit

\* counted variant: jobs per tick of a hidden page, per job of a visible one
InactiveFactor ==
    50

_signals ==
    <<"start", "stop", "break", "job", "framerequest", "complete", "error">>

\* Arguments a caller can pass for weight and priority: a number, or
\* nothing / something that is not a number.
Num(n) ==
    [isNum |-> TRUE, val |-> n]

NotANumber ==
    [isNum |-> FALSE, val |-> 0]

RawWeights ==
    {NotANumber, Num(0), Num(1), Num(2), Num(Unit), Num(Unit + 1)}

\* a caller that passes neither
PlainWeights ==
    {NotANumber}

PlainPriorities ==
    {NotANumber}

RawPriorities ==
    {NotANumber, Num(1)}

NoJob ==
    [id |-> 0, weight |-> 0, priority |-> 0]

NoError ==
    "null"

\* the value a failing callable throws
Thrown ==
    "thrown"

NoEvent ==
    [eventName |-> "none", busy |-> FALSE, interval |-> -1,
     jobsComplete |-> 0, jobsCount |-> 0]

\* What is remembered of the tick in progress: the worker as the tick found
\* it, the callables it invoked and those that returned, the signals it
\* emitted, and whether clear() was called from inside it.
NoTick ==
    [active |-> FALSE, busy0 |-> FALSE, queue0 |-> <<>>, complete0 |-> 0,
     count0 |-> 0, raf0 |-> {}, timers0 |-> {}, weightMax |-> 0,
     attempts |-> 0, exec |-> <<>>, emits |-> <<>>, cleared |-> FALSE]

NoScenario ==
    [phase |-> "off", n |-> 0, ticks |-> 0, completes |-> 0]

\* How the last tick ended, when it ended with "break" or "error" and its
\* listeners called nothing: the job that threw, and whether stop() has
\* been called since.
NoEnd ==
    [how |-> "none", job |-> 0, stopped |-> FALSE]

Signals ==
    {_signals[k] : k \in 1..Len(_signals)}

\* _eventListener[eventName]: undefined, or the array of callbacks
NoListeners ==
    [exists |-> FALSE, list |-> <<>>]

\* What one call of _emit did: the callbacks it called, in the order of
\* the calls, the value it returned, and the callbacks that were registered
\* when it began.
NoEmission ==
    [eventName |-> "none", calls |-> <<>>, result |-> "none",
     listeners |-> <<>>]

VARIABLES
    \* the worker's fields (_init)
    busy, jobList, error, interval, jobsComplete, jobsCount, workOnInactive,
    \* _eventListener, and the counted variant's _jobsPerFrameRequest
    eventListener, jobsPerFrameRequest,
    \* the host: document.visibilityState, whether the worker's
    \* visibilitychange listener is registered, scheduled callbacks, whether
    \* window.requestAnimationFrame is a function
    visible, listening, raf, timers, frames,
    \* position inside the running handler and the locals of _worker (index
    \* is also the i of _emit while its loop runs)
    pc, count, index, weightTotal, job, calls,
    \* observation: what the last step emitted / invoked, the call it was of a
    \* method that can return without touching the state (start, the
    \* visibility handler, the setters and registrations of the other
    \* variants), what it threw to its caller, whether "start" has been
    \* emitted and none of "stop", "break", "error", "complete" since (where
    \* the initial state asks for this record, and there also the jobs whose
    \* callable has returned since the counters were last reset), and history
    event, invoked, tick, scen, ended, emission, method, thrown, started,
    returned

worker ==
    <<busy, jobList, error, interval, jobsComplete, jobsCount, workOnInactive,
      eventListener, jobsPerFrameRequest>>

host ==
    <<visible, listening, raf, timers, frames>>

locals ==
    <<pc, count, index, weightTotal, job, calls>>

observed ==
    <<event, invoked, tick, scen, ended, emission, method, thrown, started,
      returned>>

vars ==
    <<worker, host, locals, observed>>

\* The worker and its host as one value, for the operators below.
S ==
    [busy |-> busy, jobList |-> jobList, error |-> error,
     interval |-> interval, jobsComplete |-> jobsComplete,
     jobsCount |-> jobsCount, visible |-> visible, listening |-> listening,
     raf |-> raf, timers |-> timers, workOnInactive |-> workOnInactive,
     eventListener |-> eventListener,
     jobsPerFrameRequest |-> jobsPerFrameRequest, frames |-> frames]

Becomes(s) ==
    /\ busy' = s.busy
    /\ jobList' = s.jobList
    /\ error' = s.error
    /\ interval' = s.interval
    /\ jobsComplete' = s.jobsComplete
    /\ jobsCount' = s.jobsCount
    /\ visible' = s.visible
    /\ listening' = s.listening
    /\ raf' = s.raf
    /\ timers' = s.timers
    /\ workOnInactive' = s.workOnInactive
    /\ eventListener' = s.eventListener
    /\ jobsPerFrameRequest' = s.jobsPerFrameRequest
    /\ frames' = s.frames

\* ------------------------------------------------------- pure operators
browserActive(s) ==
    s.visible

\* The host names a scheduled callback by a positive number that names no
\* other scheduled callback of the same primitive; the two primitives
\* number their callbacks independently of each other.
NewHandle(pending) ==
    CHOOSE n \in 1..(Cardinality(pending) + 1) :
        /\ n \notin pending
        /\ \A m \in 1..(n - 1) : m \in pending

requestAnimationFrame(s) ==
    [s EXCEPT !.interval = NewHandle(s.raf),
              !.raf = @ \cup {NewHandle(s.raf)}]

setTimeout(s) ==
    [s EXCEPT !.interval = NewHandle(s.timers),
              !.timers = @ \cup {NewHandle(s.timers)}]

cancelAnimationFrame(s, handle) ==
    [s EXCEPT !.raf = @ \ {handle}]

clearInterval(s, handle) ==
    [s EXCEPT !.timers = @ \ {handle}]

\* faulty variant: no callback is requested
_continue_forgets(s) ==
    s

_continue(s) ==
    IF browserActive(s) THEN requestAnimationFrame(s) ELSE setTimeout(s)

clear(s) ==
    LET c == clearInterval(cancelAnimationFrame(s, s.interval), s.interval)
    IN  [c EXCEPT !.listening = FALSE, !.error = NoError, !.busy = FALSE,
                  !.interval = -1, !.jobList = <<>>, !.jobsComplete = 0,
                  !.jobsCount = 0]

stop(s) ==
    IF ~s.busy THEN s
    ELSE [s EXCEPT !.listening = FALSE, !.busy = FALSE]

destroy(s) ==
    clear(stop(s))

\* faulty variant: the handler acts when the page becomes visible
_handleVisibilityChange_onShow(s) ==
    IF ~s.busy \/ ~browserActive(s) THEN s
    ELSE _continue(clearInterval(cancelAnimationFrame(s, s.interval),
                                 s.interval))

\* faulty variant: the requested frame is not cancelled
_handleVisibilityChange_keepsFrame(s) ==
    IF ~s.busy \/ browserActive(s) THEN s
    ELSE _continue(s)

_handleVisibilityChange(s) ==
    IF ~s.busy \/ browserActive(s) THEN s
    ELSE _continue(clearInterval(cancelAnimationFrame(s, s.interval),
                                 s.interval))

\* value*1 || 0
ToNumber(raw) ==
    IF raw.isNum THEN raw.val ELSE 0

\* faulty variant: the weight is not brought back into (0, 1]
NormalWeight_unclamped(raw) ==
    ToNumber(raw)

\* faulty variant: a negative weight is kept
NormalWeight_negativeKept(raw) ==
    LET w == ToNumber(raw)
    IN  IF w = 0 \/ w > Unit THEN Unit ELSE w

\* lines 354-358
NormalWeight(raw) ==
    LET w == ToNumber(raw)
    IN  IF w <= 0 \/ w > Unit THEN Unit ELSE w

NormalPriority(raw) ==
    ToNumber(raw)

\* Array.prototype.sort with the comparator a[3] - b[3]: a stable
\* insertion sort.
RECURSIVE InsertSorted(_, _)
InsertSorted(sorted, j) ==
    IF sorted = <<>> THEN <<j>>
    ELSE IF sorted[Len(sorted)].priority - j.priority > 0
         THEN Append(InsertSorted(SubSeq(sorted, 1, Len(sorted) - 1), j),
                     sorted[Len(sorted)])
         ELSE Append(sorted, j)

\* faulty variant: the list is left as pushed
sort_missing(list) ==
    list

RECURSIVE sort(_)
sort(list) ==
    IF list = <<>> THEN <<>>
    ELSE InsertSorted(sort(SubSeq(list, 1, Len(list) - 1)), list[Len(list)])

\* faulty variant: jobsCount set to the length of the list
append_countsLength(s, rawWeight, rawPriority) ==
    LET j == [id |-> s.jobsCount + 1, weight |-> NormalWeight(rawWeight),
              priority |-> NormalPriority(rawPriority)]
    IN  [s EXCEPT !.jobList = sort(Append(s.jobList, j)),
                  !.jobsCount = Len(s.jobList) + 1]

\* A job is told from the others by its place in the order of appending:
\* it is the id-th job appended since the counters were last reset.
append(s, rawWeight, rawPriority) ==
    LET j == [id |-> s.jobsCount + 1, weight |-> NormalWeight(rawWeight),
              priority |-> NormalPriority(rawPriority)]
    IN  [s EXCEPT !.jobList = sort(Append(s.jobList, j)),
                  !.jobsCount = @ + 1]

\* faulty variant: the two budgets swapped
weightMaxOf_swapped(s) ==
    IF ~s.workOnInactive \/ browserActive(s) THEN WeightMaxInactive
    ELSE WeightMaxActive

\* line 159
weightMaxOf(s) ==
    IF ~s.workOnInactive \/ browserActive(s) THEN WeightMaxActive
    ELSE WeightMaxInactive

\* faulty variant: a job that fills the budget exactly is not admitted
RECURSIVE SelectCount_strict(_, _, _, _)
SelectCount_strict(list, wMax, cnt, wTotal) ==
    IF cnt < Len(list)
    THEN IF list[cnt + 1].weight + wTotal >= wMax THEN cnt
         ELSE SelectCount_strict(list, wMax, cnt + 1,
                                 wTotal + list[cnt + 1].weight)
    ELSE cnt

\* _worker lines 163-175: how many jobs to execute
RECURSIVE SelectCount(_, _, _, _)
SelectCount(list, wMax, cnt, wTotal) ==
    IF cnt < Len(list)
    THEN IF list[cnt + 1].weight + wTotal > wMax THEN cnt
         ELSE SelectCount(list, wMax, cnt + 1, wTotal + list[cnt + 1].weight)
    ELSE cnt

_emit(eventName, s) ==
    [eventName |-> eventName, busy |-> s.busy, interval |-> s.interval,
     jobsComplete |-> s.jobsComplete, jobsCount |-> s.jobsCount]

\* _stop, _break and _complete up to the point where the listeners run
_stop(s) ==
    [s EXCEPT !.interval = -1]

\* faulty variant: the break throws the queue away
_break_dropsQueue(s) ==
    [s EXCEPT !.interval = -1, !.jobList = <<>>]

\* faulty variant: the break resets the worker as a completion does
_break_completes(s) ==
    [s EXCEPT !.interval = -1, !.busy = FALSE, !.jobList = <<>>,
              !.jobsComplete = 0, !.jobsCount = 0]

_break(s) ==
    [s EXCEPT !.interval = -1]

_complete(s) ==
    [s EXCEPT !.busy = FALSE, !.interval = -1]

\* faulty variant: the executed job is not counted
jobExecuted_uncounted(s) ==
    s

\* line 203
jobExecuted(s) ==
    [s EXCEPT !.jobsComplete = @ + 1]

\* faulty variant: the job that threw is not put back
jobFailed_dropsJob(s, j) ==
    [s EXCEPT !.error = Thrown]

\* lines 193-196: the job is put back and the error stored
jobFailed(s, j) ==
    [s EXCEPT !.jobList = <<j>> \o @, !.error = Thrown]

\* the host has room for one more scheduled callback
HandleFree ==
    Cardinality(raf) + Cardinality(timers) < MaxPending

\* ------------------------------------------------------------ observers
\* the signals that end a run
Terminals ==
    {"stop", "break", "error", "complete"}

\* whether a run is open after the step's emission; "off" where no record
\* is kept
Lifecycle ==
    /\ started' = IF started = "off" THEN "off"
                  ELSE IF event'.eventName = "start" THEN "yes"
                  ELSE IF event'.eventName \in Terminals THEN "no"
                  ELSE started
    /\ returned' = IF started = "off" \/ jobsCount' = 0 THEN {}
                   ELSE IF pc = "fn" /\ pc' = "onjob"
                        THEN returned \cup {job.id}
                        ELSE returned

Locals(p, c, i, w, j) ==
    /\ pc' = p
    /\ count' = c
    /\ index' = i
    /\ weightTotal' = w
    /\ job' = j

Rest ==
    /\ Locals("idle", 0, 0, 0, NoJob)
    /\ calls' = 0

Observe(ev, id) ==
    /\ event' = ev
    /\ invoked' = id

Emitted(tk, ev) ==
    IF tk.active THEN [tk EXCEPT !.emits = Append(@, ev.eventName)] ELSE tk

\* The scenario "append N default jobs, start, leave the worker alone in a
\* visible page" is still being followed after a step of the worker itself.
ScenRun ==
    IF scen.phase = "run" /\ calls = 0 THEN scen ELSE NoScenario

\* the worker as _init leaves it, in a page visible or hidden
Constructed ==
    /\ busy = FALSE
    /\ jobList = <<>>
    /\ error = NoError
    /\ interval = -1
    /\ jobsComplete = 0
    /\ jobsCount = 0
    /\ workOnInactive = TRUE
    /\ eventListener = [name \in Signals |-> NoListeners]
    /\ jobsPerFrameRequest = 1
    /\ visible \in BOOLEAN
    /\ listening = FALSE
    /\ raf = {}
    /\ timers = {}
    /\ frames = TRUE
    /\ pc = "idle"
    /\ count = 0
    /\ index = 0
    /\ weightTotal = 0
    /\ job = NoJob
    /\ calls = 0
    /\ event = NoEvent
    /\ invoked = 0
    /\ tick = NoTick
    /\ scen = IF visible THEN [NoScenario EXCEPT !.phase = "pre"]
              ELSE NoScenario
    /\ ended = NoEnd
    /\ emission = NoEmission
    /\ method = "none"
    /\ thrown = "none"
    /\ returned = {}

Init ==
    /\ Constructed
    /\ started = "off"

\* ------------------------------------------------- calls of the public API
\* A caller is either the page (no handler of the worker is running) or a
\* job callable / listener the worker is currently running; the callbacks
\* of one handler make at most MaxCalls calls between them.
CanCall ==
    pc = "idle" \/ calls < MaxCalls

Called(s) ==
    /\ Becomes(s)
    /\ UNCHANGED <<pc, count, index, weightTotal, job>>
    /\ calls' = IF pc = "idle" THEN 0 ELSE calls + 1
    /\ invoked' = 0

AppendJob(limit, rawWeight, rawPriority) ==
    /\ CanCall
    /\ jobsCount < limit
    /\ Called(append(S, rawWeight, rawPriority))
    /\ event' = NoEvent
    /\ scen' = IF /\ scen.phase = "pre"
                  /\ pc = "idle"
                  /\ NormalWeight(rawWeight) = Unit
                  /\ NormalPriority(rawPriority) = 0
               THEN [scen EXCEPT !.n = @ + 1]
               ELSE NoScenario
    /\ UNCHANGED tick
    /\ UNCHANGED <<ended, emission>>
    /\ method' = "none"
    /\ thrown' = "none"
    /\ Lifecycle

Clear ==
    /\ CanCall
    /\ Called(clear(S))
    /\ event' = NoEvent
    /\ tick' = IF tick.active THEN [tick EXCEPT !.cleared = TRUE] ELSE tick
    /\ scen' = NoScenario
    /\ ended' = NoEnd
    /\ UNCHANGED emission
    /\ method' = "none"
    /\ thrown' = "none"
    /\ Lifecycle

Destroy ==
    /\ CanCall
    /\ Called(destroy(S))
    /\ event' = NoEvent
    /\ tick' = IF tick.active THEN [tick EXCEPT !.cleared = TRUE] ELSE tick
    /\ scen' = NoScenario
    /\ ended' = NoEnd
    /\ UNCHANGED emission
    /\ method' = "none"
    /\ thrown' = "none"
    /\ Lifecycle

Stop ==
    /\ CanCall
    /\ Called(stop(S))
    /\ event' = NoEvent
    /\ scen' = NoScenario
    /\ ended' = IF ended.how = "none" THEN ended
                ELSE [ended EXCEPT !.stopped = TRUE]
    /\ UNCHANGED <<tick, emission>>
    /\ method' = "none"
    /\ thrown' = "none"
    /\ Lifecycle

\* the workOnInactive setter, called by the page
SetWorkOnInactive(value) ==
    /\ pc = "idle"
    /\ Called([S EXCEPT !.workOnInactive = value])
    /\ event' = NoEvent
    /\ scen' = NoScenario
    /\ UNCHANGED tick
    /\ UNCHANGED <<ended, emission>>
    /\ method' = "none"
    /\ thrown' = "none"
    /\ Lifecycle

\* start() up to the point where the listeners of "start" run
start(s) ==
    IF s.busy THEN s ELSE [s EXCEPT !.listening = TRUE, !.busy = TRUE]

\* faulty variant: start() does not look at busy
Start_unguarded ==
    /\ pc = "idle"
    /\ Becomes([S EXCEPT !.listening = TRUE, !.busy = TRUE])
    /\ Locals("onstart", 0, 0, 0, NoJob)
    /\ calls' = 0
    /\ Observe(_emit("start", [S EXCEPT !.listening = TRUE, !.busy = TRUE]), 0)
    /\ scen' = NoScenario
    /\ UNCHANGED <<tick, ended, emission>>
    /\ method' = "start"
    /\ thrown' = "none"
    /\ Lifecycle

\* start() called by the page
Start ==
    /\ pc = "idle"
    /\ Becomes(start(S))
    /\ IF busy
       THEN /\ Rest
            /\ Observe(NoEvent, 0)
            /\ scen' = NoScenario
       ELSE /\ Locals("onstart", 0, 0, 0, NoJob)
            /\ calls' = 0
            /\ Observe(_emit("start", start(S)), 0)
            /\ scen' = IF scen.phase = "pre" /\ scen.n >= 1
                       THEN [scen EXCEPT !.phase = "run"]
                       ELSE NoScenario
    /\ UNCHANGED tick
    /\ UNCHANGED <<ended, emission>>
    /\ method' = "start"
    /\ thrown' = "none"
    /\ Lifecycle

\* start() called by a callable or a listener: the listeners of the "start"
\* it emits run to their end inside this step and call nothing themselves.
StartInside ==
    /\ pc # "idle"
    /\ calls < MaxCalls
    /\ busy \/ HandleFree
    /\ Called(IF busy THEN S ELSE _continue(start(S)))
    /\ event' = IF busy THEN NoEvent ELSE _emit("start", start(S))
    /\ tick' = IF busy THEN tick
               ELSE Emitted([tick EXCEPT !.cleared = FALSE],
                            _emit("start", start(S)))
    /\ scen' = NoScenario
    /\ UNCHANGED <<ended, emission>>
    /\ method' = "start"
    /\ thrown' = "none"
    /\ Lifecycle

OnStartReturn ==
    /\ pc = "onstart"
    /\ HandleFree
    /\ Becomes(_continue(S))
    /\ Rest
    /\ Observe(NoEvent, 0)
    /\ scen' = ScenRun
    /\ UNCHANGED tick
    /\ UNCHANGED <<ended, emission>>
    /\ method' = "none"
    /\ thrown' = "none"
    /\ Lifecycle

\* -------------------------------------------------------------- the host
\* document.visibilityState changes; the document calls the worker's
\* handler if start() has registered it.
VisibilityChange ==
    /\ pc = "idle"
    /\ LET s == [S EXCEPT !.visible = ~visible]
       IN  IF listening
           THEN /\ (~s.busy \/ browserActive(s) \/ HandleFree)
                /\ Becomes(_handleVisibilityChange(s))
           ELSE Becomes(s)
    /\ Rest
    /\ Observe(NoEvent, 0)
    /\ scen' = NoScenario
    /\ UNCHANGED tick
    /\ UNCHANGED <<ended, emission>>
    /\ method' = IF listening THEN "_handleVisibilityChange" ELSE "none"
    /\ thrown' = "none"
    /\ Lifecycle

\* ------------------------------------------------------------- _worker
\* faulty variant: the job is invoked and left in the list
Loop_peeks(s, c, i, w, j, leave, tk) ==
    IF ~leave /\ Len(s.jobList) > 0 /\ i < c
    THEN /\ Becomes(s)
         /\ Locals("fn", c, i, w, Head(s.jobList))
         /\ Observe(NoEvent, Head(s.jobList).id)
         /\ tick' = [tk EXCEPT !.attempts = @ + 1]
    ELSE /\ Becomes(s)
         /\ Locals("onframerequest", c, i, w, j)
         /\ Observe(_emit("framerequest", s), 0)
         /\ tick' = Emitted(tk, _emit("framerequest", s))

\* line 180: the head of the execution loop; the job is shifted off the
\* list and its callable invoked, or the loop is left (also by the break
\* of line 215) and "framerequest" emitted.
Loop(s, c, i, w, j, leave, tk) ==
    IF ~leave /\ Len(s.jobList) > 0 /\ i < c
    THEN /\ Becomes([s EXCEPT !.jobList = Tail(@)])
         /\ Locals("fn", c, i, w, Head(s.jobList))
         /\ Observe(NoEvent, Head(s.jobList).id)
         /\ tick' = [tk EXCEPT !.attempts = @ + 1]
    ELSE /\ Becomes(s)
         /\ Locals("onframerequest", c, i, w, j)
         /\ Observe(_emit("framerequest", s), 0)
         /\ tick' = Emitted(tk, _emit("framerequest", s))

TickBegins(s) ==
    [active |-> TRUE, busy0 |-> s.busy, queue0 |-> s.jobList,
     complete0 |-> s.jobsComplete, count0 |-> s.jobsCount, raf0 |-> s.raf,
     timers0 |-> s.timers, weightMax |-> weightMaxOf(s), attempts |-> 0,
     exec |-> <<>>, emits |-> <<>>, cleared |-> FALSE]

\* faulty variant: the tick does not look at busy
_worker_unchecked(s) ==
    /\ pc = "idle"
    /\ Loop(s, SelectCount(s.jobList, weightMaxOf(s), 0, 0), 0, 0,
            NoJob, FALSE, TickBegins(s))
    /\ calls' = 0
    /\ scen' = IF scen.phase = "run"
               THEN [scen EXCEPT !.ticks = @ + 1] ELSE NoScenario
    /\ ended' = NoEnd
    /\ UNCHANGED emission
    /\ method' = "none"
    /\ thrown' = "none"
    /\ Lifecycle

\* lines 150-175: a scheduled callback fires
_worker(s) ==
    /\ pc = "idle"
    /\ IF ~s.busy
       THEN /\ Becomes(_stop(s))
            /\ Locals("onstop", 0, 0, 0, NoJob)
            /\ Observe(_emit("stop", _stop(s)), 0)
            /\ tick' = Emitted(TickBegins(s), _emit("stop", _stop(s)))
       ELSE Loop(s, SelectCount(s.jobList, weightMaxOf(s), 0, 0), 0, 0,
                 NoJob, FALSE, TickBegins(s))
    /\ calls' = 0
    /\ scen' = IF scen.phase = "run"
               THEN [scen EXCEPT !.ticks = @ + 1] ELSE NoScenario
    /\ ended' = NoEnd
    /\ UNCHANGED emission
    /\ method' = "none"
    /\ thrown' = "none"
    /\ Lifecycle

FrameFires(handle) ==
    /\ handle \in raf
    /\ _worker([S EXCEPT !.raf = @ \ {handle}])

TimerFires(handle) ==
    /\ handle \in timers
    /\ _worker([S EXCEPT !.timers = @ \ {handle}])

\* lines 202-209: the callable returned
FnReturns ==
    /\ pc = "fn"
    /\ LET s == jobExecuted(S)
       IN  /\ Becomes(s)
           /\ Locals("onjob", count, index + 1, weightTotal + job.weight, job)
           /\ Observe(_emit("job", s), 0)
           /\ tick' = Emitted([tick EXCEPT !.exec = Append(@, job)],
                              _emit("job", s))
    /\ scen' = ScenRun
    /\ UNCHANGED <<calls, ended, emission>>
    /\ method' = "none"
    /\ thrown' = "none"
    /\ Lifecycle

\* lines 190-200: the callable threw
FnThrows ==
    /\ pc = "fn"
    /\ LET s == jobFailed(S, job)
       IN  /\ Becomes(s)
           /\ Locals("onerror", count, index, weightTotal, job)
           /\ Observe(_emit("error", s), 0)
           /\ tick' = Emitted(tick, _emit("error", s))
    /\ scen' = NoScenario
    /\ UNCHANGED <<calls, ended, emission>>
    /\ method' = "none"
    /\ thrown' = "none"
    /\ Lifecycle

Break ==
    /\ Becomes(_break(S))
    /\ Locals("onbreak", count, index, weightTotal, job)
    /\ Observe(_emit("break", _break(S)), 0)
    /\ tick' = Emitted(tick, _emit("break", _break(S)))

\* lines 207-216: the listeners of "job" returned
OnJobReturn(preventDefault) ==
    /\ pc = "onjob"
    /\ IF preventDefault
       THEN Break
       ELSE Loop(S, count, index, weightTotal, job,
                 browserActive(S) /\ weightTotal > Unit, tick)
    /\ scen' = IF preventDefault THEN NoScenario ELSE ScenRun
    /\ UNCHANGED <<calls, ended, emission>>
    /\ method' = "none"
    /\ thrown' = "none"
    /\ Lifecycle

\* lines 218-225: the listeners of "framerequest" returned
OnFrameRequestReturn(preventDefault) ==
    /\ pc = "onframerequest"
    /\ IF preventDefault
       THEN Break /\ UNCHANGED calls
       ELSE IF Len(jobList) > 0
            THEN /\ HandleFree
                 /\ Becomes(_continue(S))
                 /\ Rest
                 /\ Observe(NoEvent, 0)
                 /\ tick' = NoTick
            ELSE /\ Becomes(_complete(S))
                 /\ Locals("oncomplete", count, index, weightTotal, job)
                 /\ Observe(_emit("complete", _complete(S)), 0)
                 /\ tick' = Emitted(tick, _emit("complete", _complete(S)))
                 /\ UNCHANGED calls
    /\ scen' = IF preventDefault \/ scen.phase # "run" \/ calls # 0
               THEN NoScenario
               ELSE IF Len(jobList) > 0 THEN scen
                    ELSE [scen EXCEPT !.completes = @ + 1]
    /\ UNCHANGED <<ended, emission>>
    /\ method' = "none"
    /\ thrown' = "none"
    /\ Lifecycle

\* _complete, after the listeners of "complete" returned
OnCompleteReturn ==
    /\ pc = "oncomplete"
    /\ Becomes(clear(S))
    /\ Rest
    /\ Observe(NoEvent, 0)
    /\ tick' = NoTick
    /\ scen' = IF scen.phase = "run" /\ calls = 0
               THEN [scen EXCEPT !.phase = "done"] ELSE NoScenario
    /\ UNCHANGED <<ended, emission>>
    /\ method' = "none"
    /\ thrown' = "none"
    /\ Lifecycle

\* _stop, _break and the error path end the tick when the listeners return
OnHaltReturn ==
    /\ pc \in {"onstop", "onbreak", "onerror"}
    /\ Becomes(S)
    /\ Rest
    /\ Observe(NoEvent, 0)
    /\ tick' = NoTick
    /\ scen' = NoScenario
    /\ ended' = IF calls = 0 /\ pc = "onbreak"
                THEN [NoEnd EXCEPT !.how = "break"]
                ELSE IF calls = 0 /\ pc = "onerror"
                     THEN [NoEnd EXCEPT !.how = "error", !.job = job.id]
                     ELSE NoEnd
    /\ UNCHANGED emission
    /\ method' = "none"
    /\ thrown' = "none"
    /\ Lifecycle

Next ==
    \/ \E w \in PlainWeights, p \in PlainPriorities : AppendJob(MaxJobs, w, p)
    \/ Clear
    \/ Destroy
    \/ Stop
    \/ \E v \in BOOLEAN : SetWorkOnInactive(v)
    \/ Start
    \/ StartInside
    \/ OnStartReturn
    \/ VisibilityChange
    \/ \E h \in 1..MaxPending : FrameFires(h)
    \/ \E h \in 1..MaxPending : TimerFires(h)
    \/ FnReturns
    \/ FnThrows
    \/ \E r \in BOOLEAN : OnJobReturn(r)
    \/ \E r \in BOOLEAN : OnFrameRequestReturn(r)
    \/ OnCompleteReturn
    \/ OnHaltReturn

Spec ==
    Init /\ [][Next]_vars

\* The worker whose emissions of "start" and of the signals that end a run
\* are recorded, in a page whose visibility does not change; nobody calls
\* clear() or destroy().
InitLifecycle ==
    /\ Constructed
    /\ started = "no"

NextLifecycle ==
    \/ \E w \in PlainWeights, p \in PlainPriorities : AppendJob(MaxJobs, w, p)
    \/ Stop
    \/ Start
    \/ StartInside
    \/ OnStartReturn
    \/ \E h \in 1..MaxPending : FrameFires(h)
    \/ \E h \in 1..MaxPending : TimerFires(h)
    \/ FnReturns
    \/ FnThrows
    \/ \E r \in BOOLEAN : OnJobReturn(r)
    \/ \E r \in BOOLEAN : OnFrameRequestReturn(r)
    \/ OnCompleteReturn
    \/ OnHaltReturn

SpecLifecycle ==
    InitLifecycle /\ [][NextLifecycle]_vars

\* The same record kept of a worker whose jobs have priorities, in a page
\* whose visibility changes.
NextExecutions ==
    \/ \E w \in PlainWeights, p \in RawPriorities : AppendJob(MaxJobs, w, p)
    \/ Stop
    \/ Start
    \/ OnStartReturn
    \/ VisibilityChange
    \/ \E h \in 1..MaxPending : FrameFires(h)
    \/ \E h \in 1..MaxPending : TimerFires(h)
    \/ FnReturns
    \/ FnThrows
    \/ \E r \in BOOLEAN : OnJobReturn(r)
    \/ \E r \in BOOLEAN : OnFrameRequestReturn(r)
    \/ OnCompleteReturn
    \/ OnHaltReturn

SpecExecutions ==
    InitLifecycle /\ [][NextExecutions]_vars

\* The worker with weighted and prioritised jobs, in a page whose visibility
\* does not change and whose callables and listeners only append.
NextWeighted ==
    \/ \E w \in RawWeights, p \in RawPriorities : AppendJob(MaxWeightedJobs, w, p)
    \/ \E v \in BOOLEAN : SetWorkOnInactive(v)
    \/ Start
    \/ OnStartReturn
    \/ \E h \in 1..MaxPending : FrameFires(h)
    \/ \E h \in 1..MaxPending : TimerFires(h)
    \/ FnReturns
    \/ FnThrows
    \/ \E r \in BOOLEAN : OnJobReturn(r)
    \/ \E r \in BOOLEAN : OnFrameRequestReturn(r)
    \/ OnCompleteReturn
    \/ OnHaltReturn

SpecWeighted ==
    Init /\ [][NextWeighted]_vars

\* The same worker with fewer jobs, whose callers pass every kind of
\* argument to append: none, a negative number, zero, a fraction, one, more.
AnyWeights ==
    RawWeights \cup {Num(0 - 2)}

AnyPriorities ==
    RawPriorities \cup {Num(0 - 1)}

NextArguments ==
    \/ \E w \in AnyWeights, p \in AnyPriorities :
           AppendJob(MaxArgumentJobs, w, p)
    \/ \E v \in BOOLEAN : SetWorkOnInactive(v)
    \/ Start
    \/ OnStartReturn
    \/ \E h \in 1..MaxPending : FrameFires(h)
    \/ \E h \in 1..MaxPending : TimerFires(h)
    \/ FnReturns
    \/ FnThrows
    \/ \E r \in BOOLEAN : OnJobReturn(r)
    \/ \E r \in BOOLEAN : OnFrameRequestReturn(r)
    \/ OnCompleteReturn
    \/ OnHaltReturn

SpecArguments ==
    Init /\ [][NextArguments]_vars

\* ------------------------------------------------- the counted variant
\* The counted multi-listener variant gives its jobs no weight and no
\* priority and executes jobsPerFrameRequest jobs per tick; start, stop,
\* clear, the emissions and the scheduling are those of the weighted variant.
RawCounts ==
    {NotANumber, Num(0), Num(1), Num(2)}

\* Math.max(value*1 || 0, 1)
NormalJobsPerFrameRequest(raw) ==
    IF ToNumber(raw) > 1 THEN ToNumber(raw) ELSE 1

appendCounted(s) ==
    [s EXCEPT !.jobList = Append(@, [id |-> s.jobsCount + 1, weight |-> 0,
                                     priority |-> 0]),
              !.jobsCount = @ + 1]

\* faulty variant: the factor of the single-handler variant
countOf_sixty(s) ==
    s.jobsPerFrameRequest *
        (IF ~s.workOnInactive \/ browserActive(s) THEN 1 ELSE 60)

\* var count
countOf(s) ==
    s.jobsPerFrameRequest *
        (IF ~s.workOnInactive \/ browserActive(s) THEN 1 ELSE InactiveFactor)

AppendCounted ==
    /\ CanCall
    /\ jobsCount < MaxCountedJobs
    /\ Called(appendCounted(S))
    /\ event' = NoEvent
    /\ scen' = NoScenario
    /\ UNCHANGED <<tick, ended, emission>>
    /\ method' = "append"
    /\ thrown' = "none"
    /\ Lifecycle

\* the jobsPerFrameRequest setter, called by the page
SetJobsPerFrameRequest(raw) ==
    /\ pc = "idle"
    /\ Called([S EXCEPT !.jobsPerFrameRequest = NormalJobsPerFrameRequest(raw)])
    /\ event' = NoEvent
    /\ scen' = NoScenario
    /\ UNCHANGED <<tick, ended, emission>>
    /\ method' = "jobsPerFrameRequest"
    /\ thrown' = "none"
    /\ Lifecycle

\* a scheduled callback fires
_workerCounted(s) ==
    /\ pc = "idle"
    /\ IF ~s.busy
       THEN /\ Becomes(_stop(s))
            /\ Locals("onstop", 0, 0, 0, NoJob)
            /\ Observe(_emit("stop", _stop(s)), 0)
            /\ tick' = Emitted(TickBegins(s), _emit("stop", _stop(s)))
       ELSE Loop(s, countOf(s), 0, 0, NoJob, FALSE, TickBegins(s))
    /\ calls' = 0
    /\ scen' = NoScenario
    /\ ended' = NoEnd
    /\ UNCHANGED emission
    /\ method' = "none"
    /\ thrown' = "none"
    /\ Lifecycle

FrameFiresCounted(handle) ==
    /\ handle \in raf
    /\ _workerCounted([S EXCEPT !.raf = @ \ {handle}])

TimerFiresCounted(handle) ==
    /\ handle \in timers
    /\ _workerCounted([S EXCEPT !.timers = @ \ {handle}])

\* the listeners of "job" returned
OnJobReturnCounted(preventDefault) ==
    /\ pc = "onjob"
    /\ IF preventDefault
       THEN Break
       ELSE Loop(S, count, index, weightTotal, job,
                 browserActive(S) /\ index >= jobsPerFrameRequest, tick)
    /\ scen' = NoScenario
    /\ UNCHANGED <<calls, ended, emission>>
    /\ method' = "none"
    /\ thrown' = "none"
    /\ Lifecycle

NextCounted ==
    \/ AppendCounted
    \/ \E raw \in RawCounts : SetJobsPerFrameRequest(raw)
    \/ \E v \in BOOLEAN : SetWorkOnInactive(v)
    \/ Start
    \/ OnStartReturn
    \/ VisibilityChange
    \/ \E h \in 1..MaxPending : FrameFiresCounted(h)
    \/ \E h \in 1..MaxPending : TimerFiresCounted(h)
    \/ FnReturns
    \/ \E r \in BOOLEAN : OnJobReturnCounted(r)
    \/ \E r \in BOOLEAN : OnFrameRequestReturn(r)
    \/ OnCompleteReturn
    \/ OnHaltReturn

SpecCounted ==
    Init /\ [][NextCounted]_vars

\* The callable threw: _worker has no try, the exception leaves it and
\* the host's callback with the job shifted off the list.
FnThrowsCounted ==
    /\ pc = "fn"
    /\ Becomes(S)
    /\ Rest
    /\ Observe(NoEvent, 0)
    /\ tick' = NoTick
    /\ scen' = NoScenario
    /\ ended' = NoEnd
    /\ UNCHANGED emission
    /\ method' = "none"
    /\ thrown' = Thrown
    /\ Lifecycle

\* The counted variant with a few jobs whose callables may throw.
NextCountedThrows ==
    \/ jobsCount < MaxJobs /\ AppendCounted
    \/ Start
    \/ OnStartReturn
    \/ VisibilityChange
    \/ \E h \in 1..MaxPending : FrameFiresCounted(h)
    \/ \E h \in 1..MaxPending : TimerFiresCounted(h)
    \/ FnReturns
    \/ FnThrowsCounted
    \/ \E r \in BOOLEAN : OnJobReturnCounted(r)
    \/ \E r \in BOOLEAN : OnFrameRequestReturn(r)
    \/ OnCompleteReturn
    \/ OnHaltReturn

SpecCountedThrows ==
    Init /\ [][NextCountedThrows]_vars

\* ------------------------------------------------------- the listeners
\* A callback is told from the others by its id; what matters of it to
\* _emit is the value it returns.
Callbacks ==
    {[id |-> 1, returns |-> "false"], [id |-> 2, returns |-> "undefined"],
     [id |-> 3, returns |-> "0"], [id |-> 4, returns |-> "null"],
     [id |-> 5, returns |-> "true"]}

\* values a caller may pass for a callback that are not functions
\* (undefined, a string, an object)
NonFunctions ==
    {[id |-> 0, returns |-> "none"]}

\* the signals listeners are registered for here
ListenedSignals ==
    {"job", "framerequest"}

\* the names a caller passes: the signals above and two that are none of
\* _signals
EventNames ==
    ListenedSignals \cup {"progress", "Start"}

\* typeof callback === "function"
IsFunction(callback) ==
    callback \in Callbacks

\* faulty variant: the type of the callback is not tested
addEventListenerThrows_anyCallback(eventName, callback) ==
    IF eventName \notin Signals THEN "InvalidSignal"
    ELSE "none"

\* what addEventListener throws
addEventListenerThrows(eventName, callback) ==
    IF eventName \notin Signals THEN "InvalidSignal"
    ELSE IF ~IsFunction(callback) THEN "InvalidCallback"
    ELSE "none"

addEventListener(s, eventName, callback) ==
    IF addEventListenerThrows(eventName, callback) # "none" THEN s
    ELSE [s EXCEPT !.eventListener[eventName] =
                       [exists |-> TRUE, list |-> Append(@.list, callback)]]

\* every registration of the callback is spliced out; a name that has no
\* list and a callback that is no function return at once
removeEventListener(s, eventName, callback) ==
    IF eventName \notin Signals THEN s
    ELSE IF ~s.eventListener[eventName].exists \/ ~IsFunction(callback)
    THEN s
    ELSE [s EXCEPT !.eventListener[eventName].list =
                       SelectSeq(@, LAMBDA c : c # callback)]

\* faulty variant: every falsy value prevents the default
StrictlyFalse_falsy(value) ==
    value \in {"false", "undefined", "null", "0"}

\* value === false
StrictlyFalse(value) ==
    value = "false"

\* the loop of _emit from its i-th turn on
RECURSIVE EmitLoop(_, _, _, _)
EmitLoop(list, i, called, result) ==
    IF i < Len(list)
    THEN EmitLoop(list, i + 1, Append(called, list[i + 1]),
                  IF StrictlyFalse(list[i + 1].returns) THEN "false"
                  ELSE result)
    ELSE [calls |-> called, result |-> result]

\* _emit: the callbacks it calls and the value it returns
dispatch(eventName, s) ==
    IF ~s.eventListener[eventName].exists
    THEN [eventName |-> eventName, calls |-> <<>>, result |-> "undefined",
          listeners |-> <<>>]
    ELSE LET r == EmitLoop(s.eventListener[eventName].list, 0, <<>>,
                           "undefined")
         IN  [eventName |-> eventName, calls |-> r.calls,
              result |-> r.result,
              listeners |-> s.eventListener[eventName].list]

\* a step of the page that leaves the worker at rest
PageCalls(s, name) ==
    /\ pc = "idle"
    /\ Becomes(s)
    /\ Rest
    /\ Observe(NoEvent, 0)
    /\ method' = name
    /\ UNCHANGED <<tick, scen, ended>>

Registrations ==
    Len(eventListener["job"].list) + Len(eventListener["framerequest"].list)

AddEventListener(eventName, callback) ==
    /\ Registrations < MaxListeners
    /\ PageCalls(addEventListener(S, eventName, callback), "addEventListener")
    /\ thrown' = addEventListenerThrows(eventName, callback)
    /\ Lifecycle
    /\ emission' = NoEmission

RemoveEventListener(eventName, callback) ==
    /\ PageCalls(removeEventListener(S, eventName, callback),
                 "removeEventListener")
    /\ thrown' = "none"
    /\ Lifecycle
    /\ emission' = NoEmission

\* the worker emits eventName and its listeners add and remove none
Emit(eventName) ==
    /\ PageCalls(S, "none")
    /\ thrown' = "none"
    /\ Lifecycle
    /\ emission' = dispatch(eventName, S)

NextEmit ==
    \/ \E n \in EventNames, c \in Callbacks \cup NonFunctions :
           AddEventListener(n, c)
    \/ \E n \in EventNames, c \in Callbacks \cup NonFunctions :
           RemoveEventListener(n, c)
    \/ \E n \in ListenedSignals : Emit(n)

SpecEmit ==
    Init /\ [][NextEmit]_vars

\* --------------------------------------- listeners that change the lists
\* _emit one turn of its loop at a time: the loop reads the array of the
\* signal and its length anew at every turn, and the callback it calls may
\* add or remove a callback of the signal before it returns.
EmitBegins(eventName) ==
    /\ pc = "idle"
    /\ eventListener[eventName].exists
    /\ Becomes(S)
    /\ Locals("emit", 0, 0, 0, NoJob)
    /\ calls' = 0
    /\ Observe(NoEvent, 0)
    /\ emission' = [eventName |-> eventName, calls |-> <<>>,
                    result |-> "undefined",
                    listeners |-> eventListener[eventName].list]
    /\ scen' = NoScenario
    /\ UNCHANGED <<tick, ended>>
    /\ method' = "none"
    /\ thrown' = "none"
    /\ Lifecycle

\* this._eventListener[eventName][i]
Listener ==
    eventListener[emission.eventName].list[index + 1]

\* one turn of the loop: the callback is called, leaves the lists as s has
\* them, and returns
Turn(s, name) ==
    /\ pc = "emit"
    /\ index < Len(eventListener[emission.eventName].list)
    /\ Becomes(s)
    /\ Locals("emit", 0, index + 1, 0, NoJob)
    /\ calls' = 0
    /\ Observe(NoEvent, 0)
    /\ emission' = [emission EXCEPT
                        !.calls = Append(@, Listener),
                        !.result = IF StrictlyFalse(Listener.returns)
                                   THEN "false" ELSE @]
    /\ scen' = NoScenario
    /\ UNCHANGED <<tick, ended>>
    /\ method' = name
    /\ thrown' = "none"
    /\ Lifecycle

ListenerReturns ==
    Turn(S, "none")

ListenerAdds(callback) ==
    /\ Registrations < MaxListeners
    /\ Turn(addEventListener(S, emission.eventName, callback),
            "addEventListener")

ListenerRemoves(callback) ==
    Turn(removeEventListener(S, emission.eventName, callback),
         "removeEventListener")

\* i has reached the length of the array
EmitEnds ==
    /\ pc = "emit"
    /\ index >= Len(eventListener[emission.eventName].list)
    /\ Becomes(S)
    /\ Rest
    /\ Observe(NoEvent, 0)
    /\ scen' = NoScenario
    /\ UNCHANGED <<tick, ended, emission>>
    /\ method' = "none"
    /\ thrown' = "none"
    /\ Lifecycle

NextReentrant ==
    \/ \E n \in ListenedSignals, c \in Callbacks : AddEventListener(n, c)
    \/ \E n \in ListenedSignals, c \in Callbacks : RemoveEventListener(n, c)
    \/ \E n \in ListenedSignals : EmitBegins(n)
    \/ ListenerReturns
    \/ \E c \in Callbacks : ListenerAdds(c)
    \/ \E c \in Callbacks : ListenerRemoves(c)
    \/ EmitEnds

SpecReentrant ==
    Init /\ [][NextReentrant]_vars

\* ------------------------------------------- the single-handler variant
\* The variant with one handler per signal (onStart, onStop, onBreak, onJob,
\* onFrameRequest, onComplete) and no visibility handling: it executes
\* jobsPerFrameRequest jobs per tick, requests its ticks of
\* requestAnimationFrame where the host has one and of setTimeout where it
\* has none. Its callables here return; its handlers return any value.
HandlerValues ==
    {"false", "undefined", "true"}

\* what _emit returns to _worker when the handler returned value: the
\* function has no return statement
_emitSingle(value) ==
    "undefined"

appendSingle(s) ==
    [s EXCEPT !.jobList = Append(@, [id |-> s.jobsComplete + Len(s.jobList) + 1,
                                     weight |-> 0, priority |-> 0]),
              !.jobsCount = Len(s.jobList) + 1]

_continueSingle(s) ==
    IF s.frames THEN requestAnimationFrame(s) ELSE setTimeout(s)

clearSingle(s) ==
    [clearInterval(s, s.interval) EXCEPT
         !.busy = FALSE, !.interval = -1, !.jobList = <<>>,
         !.jobsComplete = 0, !.jobsCount = 0]

startSingle(s) ==
    IF s.busy THEN s ELSE [s EXCEPT !.busy = TRUE]

stopSingle(s) ==
    IF ~s.busy THEN s ELSE [s EXCEPT !.busy = FALSE]

InitSingle ==
    /\ busy = FALSE
    /\ jobList = <<>>
    /\ error = NoError
    /\ interval = -1
    /\ jobsComplete = 0
    /\ jobsCount = 0
    /\ workOnInactive = TRUE
    /\ eventListener = [name \in Signals |-> NoListeners]
    /\ jobsPerFrameRequest = 1
    /\ visible = TRUE
    /\ listening = FALSE
    /\ raf = {}
    /\ timers = {}
    /\ frames \in BOOLEAN
    /\ pc = "idle"
    /\ count = 0
    /\ index = 0
    /\ weightTotal = 0
    /\ job = NoJob
    /\ calls = 0
    /\ event = NoEvent
    /\ invoked = 0
    /\ tick = NoTick
    /\ scen = NoScenario
    /\ ended = NoEnd
    /\ emission = NoEmission
    /\ method = "none"
    /\ thrown = "none"
    /\ returned = {}
    /\ started = "off"

\* a call made by the page or by a callable or handler
CalledSingle(s, name) ==
    /\ CanCall
    /\ Called(s)
    /\ event' = NoEvent
    /\ scen' = NoScenario
    /\ UNCHANGED <<ended, emission>>
    /\ method' = name
    /\ thrown' = "none"
    /\ Lifecycle

AppendSingle ==
    /\ jobsComplete + Len(jobList) < MaxHandlerJobs
    /\ CalledSingle(appendSingle(S), "append")
    /\ UNCHANGED tick

ClearSingle ==
    /\ CalledSingle(clearSingle(S), "clear")
    /\ tick' = IF tick.active THEN [tick EXCEPT !.cleared = TRUE] ELSE tick

StopSingle ==
    /\ CalledSingle(stopSingle(S), "stop")
    /\ UNCHANGED tick

StartSingle ==
    /\ pc = "idle"
    /\ Becomes(startSingle(S))
    /\ IF busy
       THEN /\ Rest
            /\ Observe(NoEvent, 0)
       ELSE /\ Locals("onstart", 0, 0, 0, NoJob)
            /\ calls' = 0
            /\ Observe(_emit("start", startSingle(S)), 0)
    /\ scen' = NoScenario
    /\ UNCHANGED <<tick, ended, emission>>
    /\ method' = "start"
    /\ thrown' = "none"
    /\ Lifecycle

\* the handler returned: a step of the tick that is no call of the API
StepSingle ==
    /\ scen' = NoScenario
    /\ UNCHANGED <<ended, emission>>
    /\ method' = "none"
    /\ thrown' = "none"
    /\ Lifecycle

OnStartReturnSingle ==
    /\ pc = "onstart"
    /\ HandleFree
    /\ Becomes(_continueSingle(S))
    /\ Rest
    /\ Observe(NoEvent, 0)
    /\ UNCHANGED tick
    /\ StepSingle

\* the head of the while loop, and the emission that follows the loop
LoopSingle(s, c, i, j, tk) ==
    IF Len(s.jobList) > 0 /\ i < c
    THEN /\ Becomes([s EXCEPT !.jobList = Tail(@)])
         /\ Locals("fn", c, i, 0, Head(s.jobList))
         /\ Observe(NoEvent, Head(s.jobList).id)
         /\ tick' = [tk EXCEPT !.attempts = @ + 1]
    ELSE /\ Becomes(s)
         /\ Locals("onframerequest", c, i, 0, j)
         /\ Observe(_emit("frameRequest", s), 0)
         /\ tick' = Emitted(tk, _emit("frameRequest", s))

_workerSingle(s) ==
    /\ pc = "idle"
    /\ IF ~s.busy
       THEN /\ Becomes(_stop(s))
            /\ Locals("onstop", 0, 0, 0, NoJob)
            /\ Observe(_emit("stop", _stop(s)), 0)
            /\ tick' = Emitted(TickBegins(s), _emit("stop", _stop(s)))
       ELSE LoopSingle(s, s.jobsPerFrameRequest, 0, NoJob, TickBegins(s))
    /\ calls' = 0
    /\ StepSingle

FrameFiresSingle(handle) ==
    /\ handle \in raf
    /\ _workerSingle([S EXCEPT !.raf = @ \ {handle}])

TimerFiresSingle(handle) ==
    /\ handle \in timers
    /\ _workerSingle([S EXCEPT !.timers = @ \ {handle}])

FnReturnsSingle ==
    /\ pc = "fn"
    /\ LET s == jobExecuted(S)
       IN  /\ Becomes(s)
           /\ Locals("onjob", count, index + 1, 0, job)
           /\ Observe(_emit("job", s), 0)
           /\ tick' = Emitted([tick EXCEPT !.exec = Append(@, job)],
                              _emit("job", s))
    /\ UNCHANGED calls
    /\ StepSingle

\* onJob returned value
OnJobReturnSingle(value) ==
    /\ pc = "onjob"
    /\ IF StrictlyFalse(_emitSingle(value))
       THEN Break
       ELSE LoopSingle(S, count, index, job, tick)
    /\ UNCHANGED calls
    /\ StepSingle

\* onFrameRequest returned value
OnFrameRequestReturnSingle(value) ==
    /\ pc = "onframerequest"
    /\ IF StrictlyFalse(_emitSingle(value))
       THEN Break /\ UNCHANGED calls
       ELSE IF Len(jobList) > 0
            THEN /\ HandleFree
                 /\ Becomes(_continueSingle(S))
                 /\ Rest
                 /\ Observe(NoEvent, 0)
                 /\ tick' = NoTick
            ELSE /\ Becomes(_complete(S))
                 /\ Locals("oncomplete", count, index, 0, job)
                 /\ Observe(_emit("complete", _complete(S)), 0)
                 /\ tick' = Emitted(tick, _emit("complete", _complete(S)))
                 /\ UNCHANGED calls
    /\ StepSingle

\* _complete, after onComplete returned
OnCompleteReturnSingle ==
    /\ pc = "oncomplete"
    /\ Becomes(clearSingle(S))
    /\ Rest
    /\ Observe(NoEvent, 0)
    /\ tick' = NoTick
    /\ StepSingle

NextSingle ==
    \/ AppendSingle
    \/ ClearSingle
    \/ StopSingle
    \/ StartSingle
    \/ OnStartReturnSingle
    \/ \E h \in 1..MaxPending : FrameFiresSingle(h)
    \/ \E h \in 1..MaxPending : TimerFiresSingle(h)
    \/ FnReturnsSingle
    \/ \E v \in HandlerValues : OnJobReturnSingle(v)
    \/ \E v \in HandlerValues : OnFrameRequestReturnSingle(v)
    \/ OnCompleteReturnSingle
    \/ OnHaltReturn

SpecSingle ==
    InitSingle /\ [][NextSingle]_vars

\* The worker left to run: it is started on an empty queue, the page (between
\* ticks) and the callbacks append jobs while it is busy, the page changes
\* visibility, no callable throws, no listener returns false, and stop(),
\* clear() and destroy() are not called.
NextFair ==
    \/ \E w \in PlainWeights, p \in PlainPriorities :
           busy /\ AppendJob(MaxJobs, w, p)
    \/ Start
    \/ OnStartReturn
    \/ VisibilityChange
    \/ \E h \in 1..MaxPending : FrameFires(h)
    \/ \E h \in 1..MaxPending : TimerFires(h)
    \/ FnReturns
    \/ OnJobReturn(FALSE)
    \/ OnFrameRequestReturn(FALSE)
    \/ OnCompleteReturn

\* The host calls every callback it was asked to schedule and that was not
\* cancelled, and every callable and listener returns.
HostDelivers ==
    \/ \E h \in 1..MaxPending : FrameFires(h)
    \/ \E h \in 1..MaxPending : TimerFires(h)
    \/ OnStartReturn
    \/ FnReturns
    \/ OnJobReturn(FALSE)
    \/ OnFrameRequestReturn(FALSE)
    \/ OnCompleteReturn

SpecFair ==
    Init /\ [][NextFair]_vars /\ WF_vars(HostDelivers)

\* ==================================================================
\* Properties
\* ==================================================================
RECURSIVE PrefixWeight(_, _)
PrefixWeight(list, k) ==
    IF k = 0 THEN 0 ELSE PrefixWeight(list, k - 1) + list[k].weight

TotalWeight(list) ==
    PrefixWeight(list, Len(list))

\* the jobs of the longest prefix of list that weighs at most budget
LongestPrefix(list, budget) ==
    LET k == CHOOSE n \in 0..Len(list) :
                /\ PrefixWeight(list, n) <= budget
                /\ \A m \in (n + 1)..Len(list) : PrefixWeight(list, m) > budget
    IN  SubSeq(list, 1, k)

\* j comes before k in the order (priority, order of appending)
Before(j, k) ==
    \/ j.priority < k.priority
    \/ j.priority = k.priority /\ j.id < k.id

Ordered(list) ==
    \A a, b \in 1..Len(list) : a < b => Before(list[a], list[b])

Times(name, emits) ==
    Cardinality({k \in 1..Len(emits) : emits[k] = name})

\* the running tick was ended by a listener of "job" returning false
BrokenByJob ==
    /\ tick.active
    /\ Len(tick.emits) >= 2
    /\ tick.emits[Len(tick.emits)] = "break"
    /\ tick.emits[Len(tick.emits) - 1] = "job"

\* C1: N default jobs, start() and nothing else in a visible page: every
\* tick executes one job, "complete" is emitted once, with jobsComplete = N
\* in its snapshot, after exactly N ticks, and no tick is left scheduled.
C1_OneJobPerTickThenComplete ==
    /\ scen.phase = "run" =>
          /\ scen.ticks <= scen.n
          /\ scen.completes = (IF pc = "oncomplete" THEN 1 ELSE 0)
          /\ pc = "idle" => jobsComplete = scen.ticks
          /\ tick.active => jobsComplete <= scen.ticks
          /\ event.eventName = "complete" =>
                scen.ticks = scen.n /\ event.jobsComplete = scen.n
    /\ scen.phase = "done" =>
          /\ scen.ticks = scen.n
          /\ scen.completes = 1
          /\ raf = {} /\ timers = {}

C1_Witness ==
    scen.phase = "done" /\ scen.n = MaxJobs

\* C2: as long as clear() and destroy() are not called, the jobs executed,
\* the jobs queued and the job in the hands of its callable add up to
\* jobsCount; hence jobsComplete + queue length = jobsCount between ticks.
InFlight ==
    IF pc = "fn" THEN 1 ELSE 0

Balanced ==
    jobsComplete + Len(jobList) + InFlight = jobsCount

C2_CountersBalance ==
    [][(Balanced /\ ~(Clear \/ Destroy)) => Balanced']_vars

C2_Witness ==
    /\ pc = "idle"
    /\ error = Thrown
    /\ jobsComplete >= 1
    /\ Len(jobList) >= 1
    /\ Balanced

\* C3: a tick that finds the worker busy and the queue not empty selects
\* and invokes at least one job.
C3_TickAttemptsAJob ==
    (tick.active /\ tick.busy0 /\ tick.queue0 # <<>>) =>
        (count >= 1 /\ tick.attempts >= 1)

C3_Witness ==
    /\ pc = "fn"
    /\ tick.weightMax = WeightMaxInactive
    /\ job.weight < Unit
    /\ Len(tick.queue0) >= 2

\* C4: the jobs executed in one tick never weigh more than the tick's
\* budget, unless a single job heavier than the budget ran alone.
C4_BatchWithinBudget ==
    tick.active =>
        \/ TotalWeight(tick.exec) <= tick.weightMax
        \/ Len(tick.exec) = 1 /\ tick.exec[1].weight > tick.weightMax

\* C5: a tick in which nothing interferes executes the longest prefix of the
\* queue that weighs at most the budget: of 0.5, 0.5, 0.25, 0.25 with budget
\* 1 the two halves.
C5_LongestPrefixExecuted ==
    (pc = "onframerequest" /\ calls = 0) =>
        tick.exec = LongestPrefix(tick.queue0, tick.weightMax)

C5_Witness ==
    /\ pc = "onframerequest"
    /\ calls = 0
    /\ tick.weightMax = WeightMaxActive
    /\ [k \in 1..Len(tick.queue0) |-> tick.queue0[k].weight] = <<2, 2, 1, 1>>
    /\ \A k \in 1..4 : tick.queue0[k].priority = 0 /\ tick.queue0[k].id = k
    /\ tick.exec = SubSeq(tick.queue0, 1, 2)

\* C6: while no job has thrown, the queue is in the order (priority, order
\* of appending), and the job a tick invokes comes before every job queued.
C6_QueueOrdered ==
    error = NoError =>
        /\ Ordered(jobList)
        /\ invoked # 0 => \A k \in 1..Len(jobList) : Before(job, jobList[k])

C6_Witness ==
    /\ error = NoError
    /\ invoked # 0
    /\ Len(jobList) >= 2
    /\ job.id > jobList[1].id
    /\ jobList[1].priority = jobList[2].priority
    /\ jobList[1].id < jobList[2].id

\* C7: a tick that finds busy cleared by stop() executes no job, emits
\* "stop" and nothing else, leaves the queue and the counters as they were
\* and schedules nothing.
C7_StoppedTick ==
    (tick.active /\ ~tick.busy0 /\ calls = 0) =>
        /\ pc = "onstop"
        /\ tick.emits = <<"stop">>
        /\ tick.attempts = 0
        /\ jobList = tick.queue0
        /\ jobsComplete = tick.complete0
        /\ jobsCount = tick.count0
        /\ raf = tick.raf0 /\ timers = tick.timers0
        /\ interval = -1

C7_Witness ==
    /\ pc = "onstop"
    /\ calls = 0
    /\ ~listening
    /\ jobsComplete >= 1
    /\ Len(jobList) >= 1

\* C8: after clear() or destroy() has been called from inside a tick, and
\* until start() is called, the tick emits no signal and invokes no job, the
\* queue is empty, busy is false, the counters are 0 and nothing is scheduled.
C8_SilentAfterClear ==
    (tick.active /\ tick.cleared) =>
        /\ event = NoEvent
        /\ invoked = 0
        /\ jobList = <<>>
        /\ ~busy
        /\ jobsComplete = 0 /\ jobsCount = 0
        /\ raf = {} /\ timers = {}

\* C9: when a listener of "job" returns false, "break" is emitted once and
\* ends the tick: no "framerequest", no "complete", nothing scheduled, and
\* jobsComplete counts exactly the jobs executed.
C9_BreakOnJob ==
    /\ (tick.active /\ Times("break", tick.emits) > 0 /\ calls = 0) =>
          /\ pc = "onbreak"
          /\ Times("break", tick.emits) = 1
          /\ tick.emits[Len(tick.emits)] = "break"
          /\ interval = -1
          /\ raf = tick.raf0 /\ timers = tick.timers0
    /\ (BrokenByJob /\ calls = 0) =>
          /\ Times("framerequest", tick.emits) = 0
          /\ Times("complete", tick.emits) = 0
          /\ Times("job", tick.emits) = Len(tick.exec)
          /\ tick.attempts = Len(tick.exec)
          /\ jobsComplete = tick.complete0 + Len(tick.exec)
          /\ event.jobsComplete = jobsComplete

C9_Witness ==
    /\ BrokenByJob
    /\ calls = 0
    /\ tick.complete0 = 1
    /\ Len(tick.exec) = 1
    /\ count = 2

\* C10 as claimed: the jobs a tick selected and had not executed when a
\* listener of "job" broke it are no longer in the queue.
C10_RemainderLost ==
    (BrokenByJob /\ calls = 0) =>
        \A k \in (index + 1)..count :
            \A m \in 1..Len(jobList) : jobList[m] # tick.queue0[k]

\* C10 as amended: those jobs are not executed and stay at the head of the
\* queue, in their order.
C10_RemainderKept ==
    (BrokenByJob /\ calls = 0) =>
        /\ index = Len(tick.exec)
        /\ jobList = SubSeq(tick.queue0, index + 1, Len(tick.queue0))

C10_Witness ==
    /\ BrokenByJob
    /\ calls = 0
    /\ index = 1
    /\ count = 3

\* C11: when a tick has ended with "break" and neither stop() nor clear()
\* has been called since, start() emits "start" and goes on to request a
\* tick.
C11_StartAfterBreak ==
    [][(ended.how = "break" /\ ~ended.stopped /\ Start) =>
           (event'.eventName = "start" /\ pc' = "onstart")]_vars

\* C12: when a tick has ended with "error", start() starts the worker, and
\* the first callable invoked after that tick is the one that threw.
C12_RetryAfterError ==
    [][/\ (ended.how = "error" /\ Start) =>
              (event'.eventName = "start" /\ pc' = "onstart")
       /\ (ended.how = "error" /\ pc = "idle" /\ pc' = "fn") =>
              invoked' = ended.job]_vars

\* C13: when a callable throws, the tick stores the thrown value in error,
\* emits "error" once and nothing after it, puts the job back at the head of
\* the queue without counting it, emits neither "framerequest" nor "break"
\* nor "complete", and schedules nothing.
C13_ErrorHalt ==
    (tick.active /\ Times("error", tick.emits) > 0 /\ calls = 0) =>
        /\ pc = "onerror"
        /\ Times("error", tick.emits) = 1
        /\ tick.emits[Len(tick.emits)] = "error"
        /\ event.eventName = "error"
        /\ error = Thrown
        /\ jobList = SubSeq(tick.queue0, Len(tick.exec) + 1, Len(tick.queue0))
        /\ jobList # <<>> /\ Head(jobList) = job
        /\ tick.attempts = Len(tick.exec) + 1
        /\ jobsComplete = tick.complete0 + Len(tick.exec)
        /\ event.jobsComplete = jobsComplete
        /\ Times("framerequest", tick.emits) = 0
        /\ Times("break", tick.emits) = 0
        /\ Times("complete", tick.emits) = 0
        /\ raf = tick.raf0 /\ timers = tick.timers0

C13_Witness ==
    /\ pc = "onerror"
    /\ calls = 0
    /\ Len(tick.exec) >= 1
    /\ Len(jobList) >= 2

\* C14: at most one callback of the worker is scheduled and has not fired.
C14_OneTickOutstanding ==
    Cardinality(raf) + Cardinality(timers) <= 1

\* C15 as claimed: when the page becomes visible while the worker is busy
\* and its tick is scheduled with setTimeout, the handler cancels the timer
\* and schedules the tick with requestAnimationFrame.
C15_RearmOnShow ==
    [][(/\ VisibilityChange
        /\ listening /\ busy /\ ~visible
        /\ timers = {interval} /\ raf = {}) =>
           (timers' = {} /\ raf' = {interval'})]_vars

\* C15 as amended: the handler acts when the page becomes hidden, where it
\* cancels the requestAnimationFrame callback and schedules the tick with
\* setTimeout; when the page becomes visible it leaves the scheduled tick
\* as it is.
C15_RearmOnHide ==
    [][/\ (/\ VisibilityChange
           /\ listening /\ busy /\ visible
           /\ raf = {interval} /\ timers = {}) =>
              (raf' = {} /\ timers' = {interval'})
       /\ (VisibilityChange /\ ~visible) =>
              (raf' = raf /\ timers' = timers /\ interval' = interval)]_vars

C15_Witness ==
    /\ method = "_handleVisibilityChange"
    /\ ~visible
    /\ busy
    /\ raf = {}
    /\ timers = {interval}
    /\ jobList # <<>>

\* C16: start() called while busy is true emits nothing and changes neither
\* the worker nor what the host has scheduled.
C16_StartWhileBusy ==
    [][((Start \/ StartInside) /\ busy) =>
           (UNCHANGED <<worker, host>> /\ event' = NoEvent)]_vars

C16_Witness ==
    /\ method = "start"
    /\ pc = "idle"
    /\ busy
    /\ event = NoEvent
    /\ jobList # <<>>
    /\ raf # {}

\* C17: when the host delivers its callbacks and nothing throws, breaks,
\* stops or clears, a busy worker comes to emit "complete", and when it does
\* the queue is empty and every job appended has been executed.
C17_AllExecutedThenComplete ==
    /\ [](event.eventName = "complete" =>
              /\ jobList = <<>>
              /\ event.jobsComplete = event.jobsCount
              /\ event.jobsCount = jobsCount)
    /\ (busy ~> event.eventName = "complete")

C17_Witness ==
    /\ event.eventName = "complete"
    /\ tick.complete0 >= 1
    /\ event.jobsComplete = MaxJobs

\* C18: "complete" is emitted with busy already false and the counters not
\* yet reset, on an empty queue; when its listeners have returned the queue
\* is empty, the counters are 0, error is null and nothing is scheduled.
C18_CompleteThenReset ==
    /\ [](event.eventName = "complete" =>
              /\ pc = "oncomplete"
              /\ ~busy /\ ~event.busy
              /\ jobList = <<>>
              /\ event.jobsComplete = jobsComplete
              /\ event.jobsCount = jobsCount
              /\ calls = 0 =>
                     jobsComplete = tick.complete0 + Len(tick.exec))
    /\ [][OnCompleteReturn =>
              /\ ~busy'
              /\ jobList' = <<>>
              /\ jobsComplete' = 0 /\ jobsCount' = 0
              /\ error' = NoError
              /\ raf' = {} /\ timers' = {}]_vars

\* C19: a tick of the counted variant may execute jobsPerFrameRequest jobs,
\* and 50 times as many when the page is hidden and workOnInactive is true;
\* a tick that no listener of "job" breaks executes that many jobs, or all
\* the jobs there are (queued when it began or appended while it executed).
Min(a, b) ==
    IF a < b THEN a ELSE b

C19_JobsPerTick ==
    (event.eventName = "framerequest" /\ ~tick.cleared) =>
        LET limit == IF ~workOnInactive \/ visible
                     THEN jobsPerFrameRequest
                     ELSE jobsPerFrameRequest * 50
        IN  /\ count = limit
            /\ Len(tick.exec) =
                   Min(limit, Len(tick.queue0) + jobsCount - tick.count0)

C19_Witness ==
    /\ event.eventName = "framerequest"
    /\ ~visible /\ workOnInactive
    /\ jobsPerFrameRequest = 1
    /\ Len(tick.exec) = 50
    /\ jobList # <<>>

\* C20: an emission calls every callback registered for the signal, once
\* for each registration and in the order of registration, whatever they
\* return, and returns false exactly when one of them returned the boolean
\* false.
C20_EveryListenerInOrder ==
    emission.eventName # "none" =>
        LET list == eventListener[emission.eventName].list
        IN  /\ emission.calls = list
            /\ emission.result \in {"false", "undefined"}
            /\ emission.result = "false" <=>
                   \E k \in 1..Len(list) : list[k].returns = "false"

C20_Witness ==
    /\ emission.eventName = "job"
    /\ Len(emission.calls) = 3
    /\ emission.calls[1].returns = "false"
    /\ emission.calls[2].returns = "0"
    /\ emission.calls[3].returns = "undefined"
    /\ emission.result = "false"

\* C21: addEventListener called with a name that is no signal, or with a
\* callback that is no function, throws and registers nothing; removing a
\* callback that is not registered for the name throws nothing and leaves
\* every list as it was.
C21_MisuseOfListeners ==
    [][/\ method' = "addEventListener" =>
           \/ thrown' # "none" /\ UNCHANGED <<worker, host>>
           \/ \A n \in EventNames, c \in Callbacks \cup NonFunctions :
                  (n \notin Signals \/ c \in NonFunctions)
                      => ~AddEventListener(n, c)
       /\ method' = "removeEventListener" =>
           \/ thrown' = "none" /\ UNCHANGED <<worker, host>>
           \/ \A n \in EventNames, c \in Callbacks \cup NonFunctions :
                  (\/ n \notin Signals
                   \/ \A k \in 1..Len(eventListener[n].list) :
                          eventListener[n].list[k] # c)
                      => ~RemoveEventListener(n, c)]_vars

\* a call with a value that is no function has thrown while a callback was
\* registered for the signal
C21_Witness ==
    /\ method = "addEventListener"
    /\ thrown = "InvalidCallback"
    /\ Len(eventListener["job"].list) = 2

\* C22: append stores the weight it is given when that is a number in
\* (0, 1] and 1 otherwise (no number, zero or less, more than 1), and the
\* priority it is given when that is a number and 0 otherwise; every job in
\* the queue, and the job being executed, has a weight in (0, 1].
C22_StoredArguments ==
    /\ [](/\ \A k \in 1..Len(jobList) :
                 jobList[k].weight > 0 /\ jobList[k].weight <= Unit
           /\ job # NoJob => (job.weight > 0 /\ job.weight <= Unit))
    /\ [][jobsCount' = jobsCount + 1 =>
            \A w \in AnyWeights, p \in AnyPriorities :
                AppendJob(MaxArgumentJobs, w, p) =>
                    \E k \in 1..Len(jobList') :
                        /\ jobList'[k].id = jobsCount'
                        /\ jobList'[k].weight =
                               IF w.isNum /\ w.val > 0 /\ w.val <= Unit
                               THEN w.val ELSE Unit
                        /\ jobList'[k].priority =
                               IF p.isNum THEN p.val ELSE 0]_vars

\* a job of half a unit and then a job of negative priority, whose weight
\* was none in (0, 1], are queued, the second before the first
C22_Witness ==
    /\ Len(jobList) = 2
    /\ jobList[1] = [id |-> 2, weight |-> Unit, priority |-> 0 - 1]
    /\ jobList[2] = [id |-> 1, weight |-> 2, priority |-> 0]

\* C23: in the single-handler variant, when onJob or onFrameRequest
\* returns the boolean false the worker emits "break" next and requests no
\* tick.
C23_HandlerBreaks ==
    [][(OnJobReturnSingle("false") \/ OnFrameRequestReturnSingle("false"))
           => (/\ event'.eventName = "break"
               /\ pc' = "onbreak"
               /\ raf' = raf /\ timers' = timers)]_vars

\* C24: in the single-handler variant jobsCount is the number of jobs
\* executed plus the number still queued, between ticks and inside them.
C24_CountIsExecutedPlusQueued ==
    pc \in {"idle", "onjob", "onframerequest"}
        => jobsComplete + Len(jobList) = jobsCount

\* C25: in the single-handler variant, clear() called by the page leaves
\* no callback of the worker scheduled with the host.
C25_ClearCancelsTick ==
    [][(pc = "idle" /\ ClearSingle) => (raf' = {} /\ timers' = {})]_vars

\* C26: in the counted variant, when a callable throws, the job that
\* threw is the head of the queue afterwards, the jobs executed and the
\* jobs queued add up to jobsCount, and no tick is requested.
C26_FailedJobKept ==
    [][FnThrowsCounted =>
           (/\ jobList' # <<>>
            /\ Head(jobList') = job
            /\ jobsComplete' + Len(jobList') = jobsCount'
            /\ raf' = raf /\ timers' = timers)]_vars

\* the running tick was ended by a listener of "framerequest" returning
\* false
BrokenByFrameRequest ==
    /\ tick.active
    /\ Len(tick.emits) >= 2
    /\ tick.emits[Len(tick.emits)] = "break"
    /\ tick.emits[Len(tick.emits) - 1] = "framerequest"

\* C27: when a listener of "framerequest" returns false, "break" is emitted
\* once and ends the tick: no "complete" is emitted and no tick requested,
\* also when the tick emptied the queue; the worker stays busy, and the
\* queue and the counters are those the executions of the tick left.
C27_BreakOnFrameRequest ==
    /\ (pc = "onframerequest" /\ calls = 0) =>
          (tick.active /\ Times("break", tick.emits) = 0
              /\ Times("complete", tick.emits) = 0)
    /\ (BrokenByFrameRequest /\ calls = 0) =>
          /\ pc = "onbreak"
          /\ event.eventName = "break"
          /\ Times("break", tick.emits) = 1
          /\ Times("complete", tick.emits) = 0
          /\ interval = -1
          /\ raf = tick.raf0 /\ timers = tick.timers0
          /\ busy
          /\ jobList = SubSeq(tick.queue0, Len(tick.exec) + 1,
                              Len(tick.queue0))
          /\ jobsComplete = tick.complete0 + Len(tick.exec)
          /\ jobsCount = tick.count0

\* the tick that was broken executed the last job of two
C27_Witness ==
    /\ BrokenByFrameRequest
    /\ calls = 0
    /\ jobList = <<>>
    /\ Len(tick.exec) = 1
    /\ jobsComplete = 2
    /\ jobsCount = 2

\* C28: when the page becomes hidden while the worker is busy and the
\* callback it last requested is a pending animation frame, the handler
\* cancels that frame and schedules a timer in its place, so that one
\* callback outstanding before is one callback outstanding after; it changes
\* nothing else of the worker. When the worker is not busy, or the page has
\* become visible, the handler changes neither the worker nor what is
\* scheduled.
C28_HandlerOnHide ==
    [][(VisibilityChange /\ listening) =>
           /\ (busy /\ visible /\ interval \in raf) =>
                  /\ raf' = raf \ {interval}
                  /\ interval' \in timers'
                  /\ timers' \ {interval'} = timers \ {interval}
                  /\ (Cardinality(raf) + Cardinality(timers) = 1) =>
                         (raf' = {} /\ timers' = {interval'})
                  /\ UNCHANGED <<busy, jobList, jobsComplete, jobsCount,
                                 error, listening>>
           /\ (~busy \/ ~visible) =>
                  UNCHANGED <<worker, raf, timers, listening>>]_vars

\* the page was hidden in the middle of a run
C28_Witness ==
    /\ method = "_handleVisibilityChange"
    /\ ~visible
    /\ busy
    /\ jobsComplete >= 1
    /\ jobList # <<>>
    /\ raf = {}
    /\ timers = {interval}

\* C29: after a tick has ended with "break" or "error", and until start()
\* is called, a change of the page's visibility schedules no callback of the
\* worker.
C29_HaltedStaysHalted ==
    [][(ended.how \in {"break", "error"} /\ ~ended.stopped
           /\ VisibilityChange) =>
           (raf' = raf /\ timers' = timers)]_vars

\* C30: "start" is emitted only when no run is open, and "stop", "break",
\* "error" and "complete" only when one is: between two emissions of
\* "start" exactly one of the four is emitted.
C30_StartThenOneTerminal ==
    [][/\ event'.eventName = "start" => started # "yes"
       /\ event'.eventName \in Terminals => started # "no"]_vars

\* C31: a step that is no call of clear() or destroy() takes a job off the
\* queue only to hand it to its callable: the queue it leaves is the queue
\* it found, or a longer one, or the queue it found without its head, which
\* is then the job being executed.
C31_NoJobDropped ==
    [][~(Clear \/ Destroy) =>
           \/ jobList' = jobList
           \/ Len(jobList') > Len(jobList)
           \/ pc' = "fn" /\ jobList = <<job'>> \o jobList']_vars

\* C32: a job whose callable has returned is neither in the queue nor
\* invoked again, and no job is in the queue twice or in the queue while it
\* is invoked: a callable returns at most once, and a job is invoked again
\* only after it threw.
C32_ReturnsAtMostOnce ==
    /\ \A k \in 1..Len(jobList) : jobList[k].id \notin returned
    /\ \A k, m \in 1..Len(jobList) : jobList[k].id = jobList[m].id => k = m
    /\ pc = "fn" =>
          /\ job.id \notin returned
          /\ \A k \in 1..Len(jobList) : jobList[k].id # job.id

\* the second job is invoked after the first has thrown and then returned,
\* while another tick of the worker is outstanding
C32_Witness ==
    /\ pc = "fn"
    /\ job.id = 2
    /\ returned = {1}
    /\ error = Thrown
    /\ Cardinality(raf) + Cardinality(timers) >= 1

\* C33: jobsComplete is at least 0 and at most jobsCount, in the worker and
\* in the event every emission passes to the listeners.
C33_CompleteWithinCount ==
    /\ 0 <= jobsComplete
    /\ jobsComplete <= jobsCount
    /\ event.eventName # "none" =>
          (0 <= event.jobsComplete /\ event.jobsComplete <= event.jobsCount)

Occurrences(callback, list) ==
    Cardinality({k \in 1..Len(list) : list[k] = callback})

\* C34: when an emission has ended, every callback that was registered for
\* the signal when it began has been called once for each of its
\* registrations, whatever the callbacks added to and removed from the list
\* meanwhile.
C34_EveryListenerOnce ==
    (pc = "idle" /\ emission.eventName # "none") =>
        \A k \in 1..Len(emission.listeners) :
            Occurrences(emission.listeners[k], emission.calls) =
                Occurrences(emission.listeners[k], emission.listeners)

====
